---- MODULE Spec2Model ----
(***************************************************************************)
(* svelte-title: the title store (stores/title.ts) and the Title component *)
(* (components/Title.svelte) as a state machine.                           *)
(*                                                                         *)
(* The store is modelled from the Map-based revision of stores/title.ts    *)
(* (src/unnamed/part_002) and the component from the revision of           *)
(* Title.svelte with override transitions (src/unnamed/part_000).          *)
(*                                                                         *)
(* Strings are TLA+ strings.  The default separator of the code is a       *)
(* bullet between two spaces; the bullet is written "*" here.              *)
(***************************************************************************)
EXTENDS Integers, Sequences, FiniteSets, TLC

VARIABLES
    titlePartsMap,   \* Map<number, string>: level -> title
    titleParts,      \* value of the titleParts store: array of { level, title }
    titleSeparator,  \* value of the titleSeparator store
    renderCounter,   \* next auto-assigned level
    comp,            \* per Title component: props and component state
    mountOrder,      \* mounted components, oldest first (effect flush order)
    lastOp,          \* the operation that produced the current state
    mounts,          \* number of components created so far
    bt,              \* one direct call of buildTitle: arguments and outcome
    obs              \* observer: what recent steps found before they acted

vars == << titlePartsMap, titleParts, titleSeparator, renderCounter,
           comp, mountOrder, lastOp, mounts, bt, obs >>

(***************************************************************************)
(* Bounds and constants                                                    *)
(***************************************************************************)
OVERRIDE_LEVEL == -1

DEFAULT_SEPARATOR == " * "

\* Largest level a caller passes explicitly, and the cap of the counter.
MaxLevel == 1

MaxCounter == 3

\* Longest array handed to a direct buildTitle call.
MaxParts == 3

\* Number of components created in a run.
MaxMounts == 3

\* Bound: the components created in an observed run.
MaxObservedMounts == 2

\* Bound: the transitions of the override prop the observer counts.
MaxToggles == 4

\* Navigations the route observer counts; later ones leave the count alone.
MaxNavigations == 2

(***************************************************************************)
(* JavaScript values.  A primitive is a tagged record, an object is a      *)
(* record of its fields, an array is tagged and holds a sequence.          *)
(***************************************************************************)
Num(n) == [type |-> "number", val |-> n]

Str(s) == [type |-> "string", val |-> s]

JSNull == [type |-> "null"]

JSUndefined == [type |-> "undefined"]

JSArray(items) == [type |-> "array", items |-> items]

\* The object literal { level, title }.
TitlePart(level, title) == [level |-> Num(level), title |-> Str(title)]

Return(v) == [threw |-> FALSE, value |-> v]

Throw(msg) == [threw |-> TRUE, value |-> msg]

\* typeof of a value that is null, a primitive or a plain object.
typeof(v) ==
    IF "type" \in DOMAIN v
    THEN (IF v.type = "null" THEN "object" ELSE v.type)
    ELSE "object"

\* Array.isArray
isArray(v) == "type" \in DOMAIN v /\ v.type = "array"

(***************************************************************************)
(* isValidTitlePart, buildTitle                                            *)
(***************************************************************************)
isValidTitlePart(part) ==
    /\ typeof(part) = "object"
    /\ part # JSNull
    /\ "level" \in DOMAIN part
    /\ "title" \in DOMAIN part
    /\ typeof(part.level) = "number"
    /\ typeof(part.title) = "string"

\* One insertion step of a stable sort with comparator (a, b) => b.level - a.level:
\* p goes behind every element whose level is >= its own.
RECURSIVE insertDescending(_, _)
insertDescending(sorted, p) ==
    IF sorted = <<>> THEN << p >>
    ELSE IF Head(sorted).level.val >= p.level.val
         THEN << Head(sorted) >> \o insertDescending(Tail(sorted), p)
         ELSE << p >> \o sorted

\* Variant of sortDescending: the sort is left out.
sortOmitted(seq) == seq

\* Array.prototype.sort((a, b) => b.level - a.level), which is stable.
RECURSIVE sortDescending(_)
sortDescending(seq) ==
    IF seq = <<>> THEN <<>>
    ELSE insertDescending(sortDescending(SubSeq(seq, 1, Len(seq) - 1)), seq[Len(seq)])

\* Array.prototype.join on an array of strings.
RECURSIVE join(_, _)
join(titles, separator) ==
    IF titles = <<>> THEN ""
    ELSE IF Len(titles) = 1 THEN titles[1]
    ELSE titles[1] \o separator \o join(Tail(titles), separator)

\* Variant of isOverridePart: the override part is looked for at a wrong level.
overrideAtWrongLevel(p) == p.level.val = -2

isOverridePart(p) == p.level.val = OVERRIDE_LEVEL

\* Variant of isNormalPart: negative levels are not filtered out.
negativeLevelsKept(p) == p.level.val # OVERRIDE_LEVEL

isNormalPart(p) == p.level.val >= 0

\* Array.prototype.find, given the indexes of the elements that satisfy the
\* test: the first such element, or undefined.
find(seq, hits) ==
    IF hits = {} THEN JSUndefined
    ELSE seq[CHOOSE i \in hits : \A j \in hits : i <= j]

\* Variant of buildTitle: a parts argument that is no array counts as empty.
buildTitleLenient(parts, separator) ==
    IF ~isArray(parts) THEN Return("")
    ELSE LET validParts == SelectSeq(parts.items, isValidTitlePart)
             overridePart == find(validParts, { i \in 1..Len(validParts) :
                                                     isOverridePart(validParts[i]) })
             titles == [i \in 1..Len(sortDescending(SelectSeq(validParts, isNormalPart)))
                          |-> sortDescending(SelectSeq(validParts, isNormalPart))[i].title.val]
         IN  IF overridePart # JSUndefined
             THEN Return(overridePart.title.val)
             ELSE Return(join(titles, separator))

\* Variant of buildTitle: a malformed entry aborts the build.
buildTitleStrict(parts, separator) ==
    IF ~isArray(parts)
    THEN Throw("buildTitle: parts must be an array")
    ELSE IF \E i \in 1..Len(parts.items) : ~isValidTitlePart(parts.items[i])
    THEN Throw("buildTitle: invalid title part")
    ELSE LET overridePart == find(parts.items, { i \in 1..Len(parts.items) :
                                                     isOverridePart(parts.items[i]) })
             titles == [i \in 1..Len(sortDescending(SelectSeq(parts.items, isNormalPart)))
                          |-> sortDescending(SelectSeq(parts.items, isNormalPart))[i].title.val]
         IN  IF overridePart # JSUndefined
             THEN Return(overridePart.title.val)
             ELSE Return(join(titles, separator))

\* Variant of argumentAfter: the sort is applied to the caller's array when
\* all its entries are well-formed.
argumentSortedInPlace(parts) ==
    IF isArray(parts) /\ (\A i \in 1..Len(parts.items) : isValidTitlePart(parts.items[i]))
    THEN JSArray(sortDescending(parts.items))
    ELSE parts

\* The value passed as parts, as the caller finds it after the call:
\* parts.filter() and validParts.filter() return new arrays, and sort()
\* reorders normalParts, the second copy, so nothing writes to parts.
argumentAfter(parts) == parts

buildTitle(parts, separator) ==
    IF ~isArray(parts)
    THEN Throw("buildTitle: parts must be an array")
    ELSE LET validParts == SelectSeq(parts.items, isValidTitlePart)
             overridePart == find(validParts, { i \in 1..Len(validParts) :
                                                     isOverridePart(validParts[i]) })
             normalParts == SelectSeq(validParts, isNormalPart)
             sortedParts == sortDescending(normalParts)
             titles == [i \in 1..Len(sortedParts) |-> sortedParts[i].title.val]
         IN  IF overridePart # JSUndefined
             THEN Return(overridePart.title.val)
             ELSE Return(join(titles, separator))

(***************************************************************************)
(* The module state of stores/title.ts and the components, as one record,  *)
(* so that a handler calling several store functions composes them.        *)
(***************************************************************************)
World ==
    [titlePartsMap |-> titlePartsMap, titleParts |-> titleParts,
     titleSeparator |-> titleSeparator, renderCounter |-> renderCounter,
     comp |-> comp]

Commit(w) ==
    /\ titlePartsMap' = w.titlePartsMap
    /\ titleParts' = w.titleParts
    /\ titleSeparator' = w.titleSeparator
    /\ renderCounter' = w.renderCounter
    /\ comp' = w.comp

Bindings == {1, 2, 3}

\* The slots of the runs that mount at most two components at a time.
TwoBindings == {1, 2}

\* Title props a caller passes.
Titles == {"", "A", "B"}

max(S) == CHOOSE x \in S : \A y \in S : y <= x

\* const isRootLevel = $derived(hierarchyLevel === 0)
isRootLevel(c) == c.hierarchyLevel = 0

(***************************************************************************)
(* Store subscriptions of the root components                              *)
(***************************************************************************)
\* titleParts.subscribe(parts => { completeTitle = buildTitle(parts, currentSeparator) })
rebuildCallback(c, parts) ==
    [c EXCEPT !.completeTitle = buildTitle(JSArray(parts), c.currentSeparator).value]

\* titleSeparator.subscribe(sep => { currentSeparator = sep }); the rebuild effect
\* reads currentSeparator, so a change schedules it again.
separatorCallback(c, sep) ==
    IF c.currentSeparator = sep THEN c
    ELSE [c EXCEPT !.currentSeparator = sep,
                   !.pending = IF isRootLevel(c) THEN @ \cup {"rebuild"} ELSE @]

\* titleParts.set(parts): an array is always published to the subscribers.
titlePartsSet(w, parts) ==
    [w EXCEPT !.titleParts = parts,
              !.comp = [b \in Bindings |->
                           IF "titleParts" \in w.comp[b].subscribed
                           THEN rebuildCallback(w.comp[b], parts)
                           ELSE w.comp[b]]]

\* titleSeparator.set(sep): a string is published when it differs from the value held.
titleSeparatorSet(w, sep) ==
    IF w.titleSeparator = sep THEN w
    ELSE [w EXCEPT !.titleSeparator = sep,
                   !.comp = [b \in Bindings |->
                                IF "titleSeparator" \in w.comp[b].subscribed
                                THEN separatorCallback(w.comp[b], sep)
                                ELSE w.comp[b]]]

(***************************************************************************)
(* stores/title.ts                                                         *)
(***************************************************************************)
\* Variant of getNextLevel: the counter advances by two.
getNextLevelSkips(w) == [w EXCEPT !.renderCounter = @ + 2]

\* return renderCounter++ : the value returned is the counter before the call.
getNextLevel(w) == [w EXCEPT !.renderCounter = @ + 1]

\* Variant of resetLevelCounter: the counter restarts at zero whatever is active.
resetToZero(w) == [w EXCEPT !.renderCounter = 0]

\* Variant of resetLevelCounter: the reset also empties the part map and the store.
resetAndClear(w) ==
    [w EXCEPT !.renderCounter = 0, !.titlePartsMap = << >>, !.titleParts = << >>]

\* Variant of resetLevelCounter: the counter is left where it is.
resetKeepsCounter(w) == w

resetLevelCounter(w) ==
    LET levels == { l \in DOMAIN w.titlePartsMap : l # OVERRIDE_LEVEL }
        maxLevel == IF Cardinality(levels) > 0 THEN max(levels) ELSE -1
    IN  [w EXCEPT !.renderCounter = maxLevel + 1]

\* The array of the Map's entries, in ascending order of level.
RECURSIVE sortedEntries(_)
sortedEntries(map) ==
    IF DOMAIN map = {} THEN <<>>
    ELSE LET top == max(DOMAIN map)
         IN  Append(sortedEntries([l \in DOMAIN map \ {top} |-> map[l]]),
                    TitlePart(top, map[top]))

\* Variant of syncMapToStore: the entries are published highest level first.
syncMapDescending(w) == titlePartsSet(w, sortDescending(sortedEntries(w.titlePartsMap)))

syncMapToStore(w) == titlePartsSet(w, sortedEntries(w.titlePartsMap))

\* Map.prototype.set
mapSet(map, level, title) ==
    [l \in DOMAIN map \cup {level} |-> IF l = level THEN title ELSE map[l]]

\* Map.prototype.delete
mapDelete(map, level) == [l \in DOMAIN map \ {level} |-> map[l]]

\* Variant of setTitlePart: a level that already has a part keeps it.
setTitlePartFirstWins(w, level, title) ==
    IF level \in DOMAIN w.titlePartsMap THEN w
    ELSE [w EXCEPT !.titlePartsMap = mapSet(@, level, title),
                   !.titleParts = Append(@, TitlePart(level, title))]

\* Variant of setTitlePart: an empty title deletes the part.
setTitlePartEmptyRemoves(w, level, title) ==
    IF title = ""
    THEN [w EXCEPT !.titlePartsMap = mapDelete(@, level),
                   !.titleParts = sortedEntries(mapDelete(w.titlePartsMap, level))]
    ELSE [w EXCEPT !.titlePartsMap = mapSet(@, level, title),
                   !.titleParts = sortedEntries(mapSet(w.titlePartsMap, level, title))]

setTitlePart(w, level, title) ==
    syncMapToStore([w EXCEPT !.titlePartsMap = mapSet(@, level, title)])

\* Variant of removeTitlePart: the part map is emptied.
removeTitlePartClears(w, level) ==
    syncMapToStore([w EXCEPT !.titlePartsMap = << >>])

removeTitlePart(w, level) ==
    syncMapToStore([w EXCEPT !.titlePartsMap = mapDelete(@, level)])

\* setSeparator throws on the empty string before it touches the store.
setSeparatorThrows(separator) == separator = ""

\* Variant of setSeparator: the value is stored without the test.
setSeparatorUnchecked(w, separator) == titleSeparatorSet(w, separator)

setSeparator(w, separator) ==
    IF setSeparatorThrows(separator) THEN w ELSE titleSeparatorSet(w, separator)


\* Variant of clearTitleState: the separator is cleared to the empty string.
clearEmptiesSeparator(w) ==
    [titleSeparatorSet(titlePartsSet([w EXCEPT !.titlePartsMap = << >>], << >>), "")
        EXCEPT !.renderCounter = 0]

\* Variant of clearTitleState: the separator is left as it is.
clearKeepsSeparator(w) ==
    [titlePartsSet([w EXCEPT !.titlePartsMap = << >>], << >>)
        EXCEPT !.renderCounter = 0]

\* clearTitleState(), as the specification and the README describe it (the
\* store revision that exports it is not part of the sources): the part map
\* is emptied and published, the separator store is set to the default, and
\* the counter restarts at 0.
clearTitleState(w) ==
    [titleSeparatorSet(titlePartsSet([w EXCEPT !.titlePartsMap = << >>], << >>),
                       DEFAULT_SEPARATOR)
        EXCEPT !.renderCounter = 0]

(***************************************************************************)
(* components/Title.svelte                                                 *)
(***************************************************************************)
\* A slot that holds no component.
NoComponent ==
    [mounted |-> FALSE, title |-> "", level |-> JSUndefined, override |-> FALSE,
     separator |-> JSUndefined, hierarchyLevel |-> 0, completeTitle |-> "",
     currentSeparator |-> DEFAULT_SEPARATOR, previousOverride |-> FALSE,
     pending |-> {}, subscribed |-> {}]

\* Input validation of the component script: TRUE when it throws.
validationThrows(level, separator) ==
    \/ (level # JSUndefined /\ level.val < 0 /\ level.val # OVERRIDE_LEVEL)
    \/ (separator # JSUndefined /\ separator.val = "")

\* Variant of the component script: completeTitle starts empty, and only the
\* effects give the title element something to show.
initComponentBlank(w, b, title, level, override, separator) ==
    LET w1 == IF level # JSUndefined THEN w ELSE getNextLevel(w)
        hierarchyLevel == IF level # JSUndefined THEN level.val ELSE w.renderCounter
    IN  [w1 EXCEPT !.comp[b] =
            [mounted |-> TRUE, title |-> title, level |-> level,
             override |-> override, separator |-> separator,
             hierarchyLevel |-> hierarchyLevel,
             completeTitle |-> "",
             currentSeparator |-> DEFAULT_SEPARATOR,
             previousOverride |-> override,
             pending |-> {"separator", "title", "rebuild"},
             subscribed |-> {}]]

\* The component script up to the registration of its effects, for props that
\* pass validation.  No effect has run when it returns.
initComponent(w, b, title, level, override, separator) ==
    LET w1 == IF level # JSUndefined THEN w ELSE getNextLevel(w)
        hierarchyLevel == IF level # JSUndefined THEN level.val ELSE w.renderCounter
    IN  [w1 EXCEPT !.comp[b] =
            [mounted |-> TRUE, title |-> title, level |-> level,
             override |-> override, separator |-> separator,
             hierarchyLevel |-> hierarchyLevel,
             completeTitle |-> title,
             currentSeparator |-> DEFAULT_SEPARATOR,
             previousOverride |-> override,
             pending |-> {"separator", "title", "rebuild"},
             subscribed |-> {}]]

\* Variant of the component script: the level is assigned before the props
\* are validated.
scriptAssignsLevelFirst(w, b, title, level, override, separator) ==
    IF validationThrows(level, separator)
    THEN IF level # JSUndefined THEN w ELSE getNextLevel(w)
    ELSE initComponent(w, b, title, level, override, separator)

\* The component script: it throws at the validation, before any statement
\* that touches the store, or runs to its end.
componentScript(w, b, title, level, override, separator) ==
    IF validationThrows(level, separator) THEN w
    ELSE initComponent(w, b, title, level, override, separator)

\* Variant of the separator effect: a root sets the separator of its prop
\* only when no other root is mounted.
separatorEffectFirstRoot(w, b) ==
    LET c == w.comp[b]
        alone == \A x \in Bindings \ {b} :
                     ~(w.comp[x].mounted /\ isRootLevel(w.comp[x]))
        w1 == IF c.separator # JSUndefined /\ alone
              THEN setSeparator(w, c.separator.val) ELSE w
        w2 == [w1 EXCEPT !.comp[b].subscribed = @ \cup {"titleSeparator"}]
    IN  IF isRootLevel(c)
        THEN [w2 EXCEPT !.comp[b] = separatorCallback(@, w2.titleSeparator)]
        ELSE w

\* Variant of the separator effect: every component sets the separator of its
\* prop and subscribes, whatever its level.
separatorEffectAnyLevel(w, b) ==
    LET c == w.comp[b]
        w1 == IF c.separator # JSUndefined THEN setSeparator(w, c.separator.val) ELSE w
        w2 == [w1 EXCEPT !.comp[b].subscribed = @ \cup {"titleSeparator"}]
    IN  [w2 EXCEPT !.comp[b] = separatorCallback(@, w2.titleSeparator)]

\* $effect: only root manages the separator.  The props of a mounted component
\* passed validation, so setSeparator does not throw here.
separatorEffect(w, b) ==
    LET c == w.comp[b]
        w1 == IF c.separator # JSUndefined THEN setSeparator(w, c.separator.val) ELSE w
        w2 == [w1 EXCEPT !.comp[b].subscribed = @ \cup {"titleSeparator"}]
    IN  IF isRootLevel(c)
        THEN [w2 EXCEPT !.comp[b] = separatorCallback(@, w2.titleSeparator)]
        ELSE w

\* Variant of the title effect: no handling of override transitions, and an
\* empty title leaves the registry alone.
titleEffectWithoutTransitions(w, b) ==
    LET c == w.comp[b]
    IN  IF c.title = "" THEN w
        ELSE IF c.override
             THEN [setTitlePart(w, OVERRIDE_LEVEL, c.title)
                   EXCEPT !.comp[b].completeTitle = c.title]
             ELSE setTitlePart(w, c.hierarchyLevel, c.title)

\* Variant of the title effect: an empty title is written like any other.
titleEffectStoresEmpty(w, b) ==
    LET c == w.comp[b]
        w1 == IF c.previousOverride # c.override
              THEN [(IF c.previousOverride
                     THEN removeTitlePart(w, OVERRIDE_LEVEL)
                     ELSE removeTitlePart(w, c.hierarchyLevel))
                    EXCEPT !.comp[b].previousOverride = c.override]
              ELSE w
    IN  IF c.override
        THEN [setTitlePart(w1, OVERRIDE_LEVEL, c.title)
              EXCEPT !.comp[b].completeTitle = c.title]
        ELSE setTitlePart(w1, c.hierarchyLevel, c.title)

\* $effect: override transitions, then set or remove the title part.
titleEffect(w, b) ==
    LET c == w.comp[b]
        w1 == IF c.previousOverride # c.override
              THEN [(IF c.previousOverride
                     THEN removeTitlePart(w, OVERRIDE_LEVEL)
                     ELSE removeTitlePart(w, c.hierarchyLevel))
                    EXCEPT !.comp[b].previousOverride = c.override]
              ELSE w
    IN  IF c.title = ""
        THEN IF c.override
             THEN [removeTitlePart(w1, OVERRIDE_LEVEL) EXCEPT !.comp[b].completeTitle = ""]
             ELSE removeTitlePart(w1, c.hierarchyLevel)
        ELSE IF c.override
             THEN [setTitlePart(w1, OVERRIDE_LEVEL, c.title)
                   EXCEPT !.comp[b].completeTitle = c.title]
             ELSE setTitlePart(w1, c.hierarchyLevel, c.title)

\* $effect: root rebuilds the cascaded title; subscribe calls the callback at once.
rebuildEffect(w, b) ==
    IF isRootLevel(w.comp[b])
    THEN [w EXCEPT !.comp[b] =
             rebuildCallback([@ EXCEPT !.subscribed = @ \cup {"titleParts"}],
                             w.titleParts)]
    ELSE w

\* Run effect e of component b if it is scheduled.
runEffect(w, b, e) ==
    IF e \notin w.comp[b].pending THEN w
    ELSE LET w1 == [w EXCEPT !.comp[b].pending = @ \ {e}]
         IN  CASE e = "separator" -> separatorEffect(w1, b)
               [] e = "title" -> titleEffect(w1, b)
               [] e = "rebuild" -> rebuildEffect(w1, b)

\* The scheduled effects of one component, in the order the script declares them.
flushComponent(w, b) ==
    runEffect(runEffect(runEffect(w, b, "separator"), b, "title"), b, "rebuild")

\* One pass over the components, oldest first.
RECURSIVE flushPass(_, _)
flushPass(w, order) ==
    IF order = <<>> THEN w
    ELSE flushPass(flushComponent(w, Head(order)), Tail(order))

hasPending(w) == \E b \in Bindings : w.comp[b].pending # {}

\* Svelte's flush: passes until no effect is scheduled.
RECURSIVE flushEffects(_, _)
flushEffects(w, order) ==
    IF ~hasPending(w) THEN w
    ELSE flushEffects(flushPass(w, order), order)

\* Variant of onDestroy: the component goes away and its part stays.
destroyWithoutCleanup(w, b) == [w EXCEPT !.comp[b] = NoComponent]

\* Variant of onDestroy: only the part at the component's level is removed.
destroyNormalPartOnly(w, b) ==
    removeTitlePart([w EXCEPT !.comp[b] = NoComponent], w.comp[b].hierarchyLevel)

\* Variant of onDestroy: a root that goes away takes its separator with it,
\* the store goes back to the default separator.
destroyResetsSeparator(w, b) ==
    LET c == w.comp[b]
        w1 == [w EXCEPT !.comp[b] = NoComponent]
        w2 == IF isRootLevel(c) THEN setSeparator(w1, DEFAULT_SEPARATOR) ELSE w1
    IN  IF c.override
        THEN removeTitlePart(w2, OVERRIDE_LEVEL)
        ELSE removeTitlePart(w2, c.hierarchyLevel)

\* onDestroy, and the teardown of the effects (their unsubscribe functions).
destroyComponent(w, b) ==
    LET c == w.comp[b]
        w1 == [w EXCEPT !.comp[b] = NoComponent]
    IN  IF c.override
        THEN removeTitlePart(w1, OVERRIDE_LEVEL)
        ELSE removeTitlePart(w1, c.hierarchyLevel)

\* Variant of the server render: the effects of the component run, as they
\* do in the browser, and the component stays registered.
ssrRenderRunsEffects(w, title, level, override, separator, destroys) ==
    LET w1 == flushEffects(componentScript(w, 1, title, level, override, separator), <<1>>)
    IN  [head |-> w1.comp[1].completeTitle,
         hierarchyLevel |-> w1.comp[1].hierarchyLevel,
         w |-> [w1 EXCEPT !.comp[1] = NoComponent]]

\* render(Title, { props }) of svelte/server, for props that pass validation:
\* the component script runs and the head is rendered from completeTitle; no
\* effect runs.  The destroy hook runs at the end of the render or not at
\* all (destroys); the component is gone either way.
ssrRender(w, title, level, override, separator, destroys) ==
    LET w1 == componentScript(w, 1, title, level, override, separator)
    IN  [head |-> w1.comp[1].completeTitle,
         hierarchyLevel |-> w1.comp[1].hierarchyLevel,
         w |-> IF destroys THEN destroyComponent(w1, 1)
               ELSE [w1 EXCEPT !.comp[1] = NoComponent]]

\* Variant of the prop change: a component without a level prop takes a new
\* level from the counter at every render.
updatePropsResolvesLevel(w, b, title, override) ==
    LET fresh == w.comp[b].level = JSUndefined /\ w.renderCounter < MaxCounter
        w1 == IF fresh THEN getNextLevel(w) ELSE w
    IN  [w1 EXCEPT !.comp[b].title = title,
                   !.comp[b].override = override,
                   !.comp[b].hierarchyLevel = IF fresh THEN w.renderCounter ELSE @,
                   !.comp[b].pending = @ \cup {"title"}]

\* Variant of the prop change: the props change and the title effect is not
\* scheduled again.
updatePropsUnobserved(w, b, title, override) ==
    [w EXCEPT !.comp[b].title = title,
              !.comp[b].override = override]

\* A change of the title and override props of a mounted component: the title
\* effect reads both and is scheduled again.
updateProps(w, b, title, override) ==
    [w EXCEPT !.comp[b].title = title,
              !.comp[b].override = override,
              !.comp[b].pending = @ \cup {"title"}]

removeFrom(order, b) == SelectSeq(order, LAMBDA x : x # b)


(***************************************************************************)
(* State machine                                                           *)
(***************************************************************************)
\* Explicit level props that pass validation, and "no level prop".
LevelProps == {JSUndefined} \cup { Num(l) : l \in OVERRIDE_LEVEL..MaxLevel }

\* Separator props that pass validation, and "no separator prop".
SeparatorProps == {JSUndefined}

\* Levels and separators of direct calls of the store functions.
Levels == OVERRIDE_LEVEL..MaxLevel

Separators == {DEFAULT_SEPARATOR, " | ", ""}

Idle == [state |-> "idle"]

\* The observer: switched off, or watching one thing with nothing recorded.
Unobserved == [watch |-> "none"]

WatchEntry == [watch |-> "entry", state |-> "idle"]

WatchToggle == [watch |-> "toggle", state |-> "idle"]

\* The entries of a part map other than the override entry.
normalEntries(map) == [l \in DOMAIN map \ {OVERRIDE_LEVEL} |-> map[l]]

\* The cascade of the registry before the step.
cascadeBefore == buildTitle(JSArray(titleParts), titleSeparator).value

\* Observer of the override entry.  A step that puts an override entry into a
\* map that had none and leaves the other entries alone records the cascade
\* it found and the component it mounted (0 when it mounted none); when the
\* very next step is removeTitlePart(OVERRIDE_LEVEL) or the unmount of that
\* component, the record is kept as "removed".
observeOverrideEntry ==
    LET same == normalEntries(titlePartsMap') = normalEntries(titlePartsMap)
        had == OVERRIDE_LEVEL \in DOMAIN titlePartsMap
        has == OVERRIDE_LEVEL \in DOMAIN titlePartsMap'
        new == { b \in Bindings : ~comp[b].mounted /\ comp'[b].mounted }
        removal ==
            \/ lastOp'.op = "removeTitlePart" /\ lastOp'.level = OVERRIDE_LEVEL
            \/ lastOp'.op = "unmount" /\ obs.by # 0 /\ ~comp'[obs.by].mounted
    IN  IF same /\ ~had /\ has
        THEN [watch |-> "entry", state |-> "added", cascade |-> cascadeBefore,
              title |-> titlePartsMap'[OVERRIDE_LEVEL],
              by |-> IF new = {} THEN 0 ELSE CHOOSE b \in new : TRUE]
        ELSE IF obs.state = "added" /\ removal
        THEN [obs EXCEPT !.state = "removed"]
        ELSE WatchEntry

\* Observer of the override prop.  A step that turns the override prop of a
\* mounted component on records the cascade, the map and the title it found;
\* the following steps that turn the prop of that component off with its
\* recorded title, and on again, are counted, up to MaxToggles.
observeToggle ==
    LET toggled == { b \in Bindings : /\ comp[b].mounted
                                      /\ comp'[b].mounted
                                      /\ comp[b].override # comp'[b].override }
    IN  IF toggled = {} THEN WatchToggle
        ELSE LET b == CHOOSE x \in toggled : TRUE
             IN  IF /\ obs.state = "toggled"
                    /\ obs.b = b
                    /\ obs.count < MaxToggles
                    /\ (comp'[b].override \/ comp'[b].title = obs.title)
                 THEN [obs EXCEPT !.count = @ + 1]
                 ELSE IF comp'[b].override
                 THEN [watch |-> "toggle", state |-> "toggled", b |-> b,
                       count |-> 1, cascade |-> cascadeBefore,
                       title |-> comp[b].title, map |-> titlePartsMap]
                 ELSE WatchToggle

WatchRun == [watch |-> "run", state |-> "idle"]

\* The registry of a process in which nothing has run yet.
freshRegistry ==
    [titlePartsMap |-> << >>, titleParts |-> << >>,
     titleSeparator |-> DEFAULT_SEPARATOR, renderCounter |-> 0,
     comp |-> [b \in Bindings |-> NoComponent]]

\* Observer of an execution.  At clearTitleState() it starts a twin: the
\* registry of a process in which the same call is the first thing that runs,
\* and it notes whether the call found titles, a separator and a counter
\* left by an earlier execution.  Every later store call is applied to the
\* twin too, and the level the twin hands out is kept.
observeRun ==
    LET op == lastOp'.op
    IN  IF op = "clearTitleState"
        THEN [watch |-> "run", state |-> "running",
              twin |-> clearTitleState(freshRegistry),
              level |-> JSUndefined,
              dirty |-> /\ titlePartsMap # << >>
                        /\ titleSeparator # DEFAULT_SEPARATOR
                        /\ renderCounter # 0]
        ELSE IF obs.state = "idle" THEN obs
        ELSE [obs EXCEPT
                !.twin = CASE op = "getNextLevel" -> getNextLevel(@)
                           [] op = "resetLevelCounter" -> resetLevelCounter(@)
                           [] op = "setSeparator" ->
                                  setSeparator(@, lastOp'.separator)
                           [] op = "setTitlePart" ->
                                  setTitlePart(@, lastOp'.level, lastOp'.title)
                           [] op = "removeTitlePart" ->
                                  removeTitlePart(@, lastOp'.level),
                !.level = IF op = "getNextLevel" THEN Num(obs.twin.renderCounter)
                          ELSE JSUndefined]

\* Observer of the server requests.  A request is the renders between two
\* resets; the observer keeps the titles rendered in the current request and
\* whether one of its components was a root given a separator prop, and at a
\* reset it moves both to the record of the earlier requests.
WatchSsr ==
    [watch |-> "ssr", current |-> {}, custom |-> FALSE,
     earlier |-> {}, earlierCustom |-> FALSE]

observeSsr ==
    IF lastOp'.op = "render"
    THEN [obs EXCEPT !.current = @ \cup {lastOp'.title},
                     !.custom = @ \/ (lastOp'.hierarchyLevel = 0
                                       /\ lastOp'.separator # JSUndefined)]
    ELSE [obs EXCEPT !.current = {}, !.custom = FALSE,
                     !.earlier = @ \cup obs.current,
                     !.earlierCustom = @ \/ obs.custom]

\* Observer of the title prop.  A step that changes the title prop of a
\* mounted component and leaves its override prop alone records the component
\* and the title it had.
WatchTitle == [watch |-> "title", state |-> "idle"]

observeTitle ==
    LET changed == { b \in Bindings : /\ comp[b].mounted
                                      /\ comp'[b].mounted
                                      /\ comp'[b].title # comp[b].title
                                      /\ comp'[b].override = comp[b].override }
    IN  IF changed = {} THEN WatchTitle
        ELSE LET b == CHOOSE x \in changed : TRUE
             IN  [watch |-> "title", state |-> "changed", b |-> b,
                  was |-> comp[b].title]

\* Observer of the navigations: it counts them, up to MaxNavigations.
WatchRoute == [watch |-> "route", navigations |-> 0]

Observe ==
    CASE obs.watch = "none" -> obs
      [] obs.watch = "entry" -> observeOverrideEntry
      [] obs.watch = "toggle" -> observeToggle
      [] obs.watch = "run" -> observeRun
      [] obs.watch = "route" -> obs
      [] obs.watch = "title" -> observeTitle
      [] obs.watch = "ssr" -> observeSsr

\* The free slot a new component takes: slots are interchangeable, so the
\* lowest free one stands for any of them.
freeSlot(b) == ~comp[b].mounted /\ \A x \in Bindings : x < b => comp[x].mounted

Init ==
    /\ titlePartsMap = << >>
    /\ titleParts = << >>
    /\ titleSeparator = DEFAULT_SEPARATOR
    /\ renderCounter = 0
    /\ comp = [b \in Bindings |-> NoComponent]
    /\ mountOrder = << >>
    /\ lastOp = [op |-> "init"]
    /\ mounts = 0
    /\ bt = Idle
    /\ obs = Unobserved

\* mount(Title, { props }) and the flush that follows it: the component script
\* runs, then the scheduled effects.
Mount(b, title, level, override, separator) ==
    /\ freeSlot(b)
    /\ ~validationThrows(level, separator)
    /\ level = JSUndefined => renderCounter < MaxCounter
    /\ mounts < MaxMounts
    /\ Commit(flushEffects(componentScript(World, b, title, level, override, separator),
                           Append(mountOrder, b)))
    /\ mountOrder' = Append(mountOrder, b)
    /\ mounts' = mounts + 1
    /\ lastOp' = [op |-> "mount"]
    /\ obs' = Observe
    /\ UNCHANGED bt

\* mount with props that fail validation: the script throws, no component is
\* created and no effect is scheduled.
MountThrows(b, level, separator) ==
    /\ freeSlot(b)
    /\ validationThrows(level, separator)
    /\ Commit(componentScript(World, b, "A", level, FALSE, separator))
    /\ lastOp' = [op |-> "mountThrows", level |-> level, separator |-> separator]
    /\ UNCHANGED << mountOrder, mounts, bt, obs >>

\* The title or override prop of a mounted component changes, and the flush
\* that follows.
Rerender(b, title, override) ==
    /\ comp[b].mounted
    /\ << title, override >> # << comp[b].title, comp[b].override >>
    /\ Commit(flushEffects(updateProps(World, b, title, override), mountOrder))
    /\ lastOp' = [op |-> "rerender"]
    /\ obs' = Observe
    /\ UNCHANGED << mountOrder, mounts, bt >>

\* unmount(component), and the flush that follows.
Unmount(b) ==
    /\ comp[b].mounted
    /\ Commit(flushEffects(destroyComponent(World, b), removeFrom(mountOrder, b)))
    /\ mountOrder' = removeFrom(mountOrder, b)
    /\ lastOp' = [op |-> "unmount",
                  key |-> IF comp[b].override THEN OVERRIDE_LEVEL
                          ELSE comp[b].hierarchyLevel]
    /\ obs' = Observe
    /\ UNCHANGED << mounts, bt >>

\* Direct calls of the exported store functions.
CallGetNextLevel ==
    /\ renderCounter < MaxCounter
    /\ Commit(getNextLevel(World))
    /\ lastOp' = [op |-> "getNextLevel", returned |-> renderCounter]
    /\ obs' = Observe
    /\ UNCHANGED << mountOrder, mounts, bt >>

CallResetLevelCounter ==
    /\ Commit(resetLevelCounter(World))
    /\ lastOp' = [op |-> "resetLevelCounter"]
    /\ obs' = Observe
    /\ UNCHANGED << mountOrder, mounts, bt >>

\* setSeparator(separator), and the flush of the effects it schedules.
CallSetSeparator(separator) ==
    /\ Commit(flushEffects(setSeparator(World, separator), mountOrder))
    /\ lastOp' = [op |-> "setSeparator", separator |-> separator,
                  threw |-> setSeparatorThrows(separator)]
    /\ obs' = Observe
    /\ UNCHANGED << mountOrder, mounts, bt >>

\* clearTitleState(), and the flush of the effects it schedules; lastOp keeps
\* what the call found.
CallClearTitleState ==
    /\ Commit(flushEffects(clearTitleState(World), mountOrder))
    /\ lastOp' = [op |-> "clearTitleState", parts |-> Len(titleParts),
                  separator |-> titleSeparator, counter |-> renderCounter]
    /\ obs' = Observe
    /\ UNCHANGED << mountOrder, mounts, bt >>

CallSetTitlePart(level, title) ==
    /\ Commit(setTitlePart(World, level, title))
    /\ lastOp' = [op |-> "setTitlePart", level |-> level, title |-> title]
    /\ obs' = Observe
    /\ UNCHANGED << mountOrder, mounts, bt >>

CallRemoveTitlePart(level) ==
    /\ Commit(removeTitlePart(World, level))
    /\ lastOp' = [op |-> "removeTitlePart", level |-> level,
                  had |-> level \in DOMAIN titlePartsMap]
    /\ obs' = Observe
    /\ UNCHANGED << mountOrder, mounts, bt >>

\* The components and the reset on navigation.
Next ==
    \/ \E b \in TwoBindings, title \in Titles, level \in LevelProps \cup {Num(-2)},
          override \in BOOLEAN, separator \in SeparatorProps \cup {Str("")} :
          Mount(b, title, level, override, separator)
    \/ \E b \in TwoBindings : MountThrows(b, Num(-2), JSUndefined)
    \/ \E b \in TwoBindings : MountThrows(b, JSUndefined, Str(""))
    \/ \E b \in Bindings, title \in Titles, override \in BOOLEAN :
          Rerender(b, title, override)
    \/ \E b \in Bindings : Unmount(b)
    \/ CallResetLevelCounter

Spec == Init /\ [][Next]_vars

\* The state before anything is mounted, with the observer set to o.
InitWatching(o) ==
    /\ titlePartsMap = << >>
    /\ titleParts = << >>
    /\ titleSeparator = DEFAULT_SEPARATOR
    /\ renderCounter = 0
    /\ comp = [b \in Bindings |-> NoComponent]
    /\ mountOrder = << >>
    /\ lastOp = [op |-> "init"]
    /\ mounts = 0
    /\ bt = Idle
    /\ obs = o

\* The components, with the override prop observed.
InitToggle == InitWatching(WatchToggle)

NextToggle ==
    \/ \E b \in TwoBindings, title \in Titles, level \in LevelProps,
          override \in BOOLEAN, separator \in SeparatorProps :
          mounts < MaxObservedMounts /\ Mount(b, title, level, override, separator)
    \/ \E b \in Bindings, title \in Titles, override \in BOOLEAN :
          Rerender(b, title, override)
    \/ \E b \in Bindings : Unmount(b)

SpecToggle == InitToggle /\ [][NextToggle]_vars

\* The components, with the title prop observed.
InitTitle == InitWatching(WatchTitle)

SpecTitle == InitTitle /\ [][NextToggle]_vars

\* The components and direct calls on the override entry, with the override
\* entry observed.
InitEntry == InitWatching(WatchEntry)

NextEntry ==
    \/ \E b \in TwoBindings, title \in Titles, level \in LevelProps,
          override \in BOOLEAN, separator \in SeparatorProps :
          mounts < MaxObservedMounts /\ Mount(b, title, level, override, separator)
    \/ \E b \in Bindings, title \in Titles, override \in BOOLEAN :
          Rerender(b, title, override)
    \/ \E b \in Bindings : Unmount(b)
    \/ \E title \in Titles : CallSetTitlePart(OVERRIDE_LEVEL, title)
    \/ CallRemoveTitlePart(OVERRIDE_LEVEL)

SpecEntry == InitEntry /\ [][NextEntry]_vars

\* The components with separator props, and the calls that change the
\* separator or the parts under them.
AllSeparatorProps == {JSUndefined, Str(" | ")}

RootLevelProps == {JSUndefined, Num(0)}

NextSeparator ==
    \/ \E b \in TwoBindings, title \in Titles, level \in RootLevelProps,
          override \in BOOLEAN, separator \in AllSeparatorProps :
          mounts < MaxObservedMounts /\ Mount(b, title, level, override, separator)
    \/ \E b \in TwoBindings : MountThrows(b, JSUndefined, Str(""))
    \/ \E b \in Bindings, title \in Titles, override \in BOOLEAN :
          Rerender(b, title, override)
    \/ \E b \in Bindings : Unmount(b)
    \/ \E separator \in Separators : CallSetSeparator(separator)
    \/ CallClearTitleState
    \/ CallResetLevelCounter

SpecSeparator == Init /\ [][NextSeparator]_vars

\* Components mounted with no level prop, up to three at a time, and no reset.
NextAuto ==
    \/ \E b \in Bindings, title \in Titles, override \in BOOLEAN :
          Mount(b, title, JSUndefined, override, JSUndefined)
    \/ \E b \in Bindings, title \in Titles, override \in BOOLEAN :
          Rerender(b, title, override)
    \/ \E b \in Bindings : Unmount(b)

SpecAuto == Init /\ [][NextAuto]_vars

\* Components mounted with no level prop, up to three at a time, and
\* resetLevelCounter() called at any moment, before or after the unmount of
\* the outgoing components.
NextReset ==
    \/ \E b \in Bindings, title \in Titles, override \in BOOLEAN :
          Mount(b, title, JSUndefined, override, JSUndefined)
    \/ \E b \in Bindings, title \in Titles, override \in BOOLEAN :
          Rerender(b, title, override)
    \/ \E b \in Bindings : Unmount(b)
    \/ CallResetLevelCounter

SpecReset == Init /\ [][NextReset]_vars

\* A separator prop that no direct call of setSeparator passes here.
DashSeparatorProps == {JSUndefined, Str(" - ")}

\* Roots and pages that come and go, with and without a separator prop, three
\* mounts in all, and the calls that change the separator.
NextUnmount ==
    \/ \E b \in TwoBindings, title \in Titles, level \in RootLevelProps,
          override \in BOOLEAN, separator \in DashSeparatorProps :
          Mount(b, title, level, override, separator)
    \/ \E b \in Bindings : Unmount(b)
    \/ \E separator \in Separators : CallSetSeparator(separator)
    \/ CallClearTitleState

SpecUnmount == Init /\ [][NextUnmount]_vars

\* A navigation as the route test performs it: the components of the
\* outgoing route have been unmounted, then resetLevelCounter() is called.
\* The budget of mounts is per route.
Navigate ==
    /\ mountOrder = << >>
    /\ Commit(resetLevelCounter(World))
    /\ lastOp' = [op |-> "resetLevelCounter"]
    /\ mounts' = 0
    /\ obs' = [obs EXCEPT !.navigations = IF @ < MaxNavigations THEN @ + 1 ELSE @]
    /\ UNCHANGED << mountOrder, bt >>

\* Routes of components mounted with no level prop, with the navigations
\* counted.
InitRoute == InitWatching(WatchRoute)

NextRoute ==
    \/ \E b \in Bindings, title \in Titles, override \in BOOLEAN :
          Mount(b, title, JSUndefined, override, JSUndefined)
    \/ \E b \in Bindings, title \in Titles, override \in BOOLEAN :
          Rerender(b, title, override)
    \/ \E b \in Bindings : Unmount(b)
    \/ Navigate

SpecRoute == InitRoute /\ [][NextRoute]_vars

\* render(Title, { props }) on the server; lastOp keeps the props and the
\* title the rendered head shows.
SsrRender(title, level, override, separator, destroys) ==
    /\ ~validationThrows(level, separator)
    /\ level = JSUndefined => renderCounter < MaxCounter
    /\ LET r == ssrRender(World, title, level, override, separator, destroys)
       IN  /\ Commit(r.w)
           /\ lastOp' = [op |-> "render", title |-> title, override |-> override,
                         separator |-> separator,
                         hierarchyLevel |-> r.hierarchyLevel, head |-> r.head]
    /\ obs' = Observe
    /\ UNCHANGED << mountOrder, mounts, bt >>

\* Server rendering: renders of components and the reset between requests.
InitSsr == InitWatching(WatchSsr)

NextSsr ==
    \/ \E title \in Titles, level \in LevelProps, override \in BOOLEAN,
          separator \in AllSeparatorProps, destroys \in BOOLEAN :
          SsrRender(title, level, override, separator, destroys)
    \/ CallResetLevelCounter

SpecSsr == InitSsr /\ [][NextSsr]_vars

\* Components at the levels 0 and 1, several of them roots, with separator
\* props of two values.
RootSeparatorProps == {JSUndefined, Str(DEFAULT_SEPARATOR), Str(" | ")}

ExplicitLevelProps == {Num(0), Num(1)}

NextRoots ==
    \/ \E b \in TwoBindings, title \in Titles, level \in ExplicitLevelProps,
          override \in BOOLEAN, separator \in RootSeparatorProps :
          mounts < MaxObservedMounts /\ Mount(b, title, level, override, separator)
    \/ \E b \in Bindings, title \in Titles, override \in BOOLEAN :
          Rerender(b, title, override)
    \/ \E b \in Bindings : Unmount(b)

SpecRoots == Init /\ [][NextRoots]_vars

\* The store functions called directly, with no component mounted.
NextStore ==
    \/ CallGetNextLevel
    \/ CallResetLevelCounter
    \/ \E separator \in Separators : CallSetSeparator(separator)
    \/ \E level \in Levels, title \in Titles : CallSetTitlePart(level, title)
    \/ \E level \in Levels : CallRemoveTitlePart(level)
    \/ CallClearTitleState

SpecStore == Init /\ [][NextStore]_vars

\* The store functions that touch the counter or the part map, called with
\* any integer level: setTitlePart and removeTitlePart do not test the level.
AnyLevels == -2..MaxLevel

NextCounter ==
    \/ CallGetNextLevel
    \/ CallResetLevelCounter
    \/ CallClearTitleState
    \/ \E level \in AnyLevels, title \in Titles : CallSetTitlePart(level, title)
    \/ \E level \in AnyLevels : CallRemoveTitlePart(level)

SpecCounter == Init /\ [][NextCounter]_vars

\* The store functions called directly, with the executions observed.
InitIsolation == InitWatching(WatchRun)

SpecIsolation == InitIsolation /\ [][NextStore]_vars


(***************************************************************************)
(* Direct calls of buildTitle, on arguments drawn from bounded sets        *)
(***************************************************************************)
\* Well-formed parts a caller passes: levels from -2 to 2, three titles.
ValidEntries == { TitlePart(l, t) : l \in -2..2, t \in Titles }

\* Malformed entries: a level that is no number, a title that is no string,
\* a missing title, a missing level, null.
InvalidEntries ==
    { [level |-> Str("invalid"), title |-> Str("Bad")],
      [level |-> Num(1), title |-> Num(123)],
      [level |-> Num(2)],
      [title |-> Str("No Level")],
      JSNull }

Entries == ValidEntries \cup InvalidEntries

EntrySeqs == UNION { [1..n -> Entries] : n \in 0..MaxParts }

\* Values passed as parts that are no array: null, undefined, {}.
NonArrays == { JSNull, JSUndefined, [x \in {} |-> x] }

\* The separator argument: a string, or omitted.
SeparatorArgs == { Str(" | "), JSUndefined }

InitBuild ==
    /\ titlePartsMap = << >>
    /\ titleParts = << >>
    /\ titleSeparator = DEFAULT_SEPARATOR
    /\ renderCounter = 0
    /\ comp = [b \in Bindings |-> NoComponent]
    /\ mountOrder = << >>
    /\ lastOp = [op |-> "init"]
    /\ mounts = 0
    /\ obs = Unobserved
    /\ \E parts \in { JSArray(items) : items \in EntrySeqs } \cup NonArrays,
          separator \in SeparatorArgs :
          bt = [state |-> "ready", parts |-> parts, separator |-> separator]

\* separator: string = ' * ' in the parameter list: the default stands in for an
\* omitted argument.
separatorParameter(arg) == IF arg = JSUndefined THEN DEFAULT_SEPARATOR ELSE arg.val

\* buildTitle(parts, separator) called on the arguments held in bt.
CallBuildTitle ==
    /\ bt.state = "ready"
    /\ LET r == buildTitle(bt.parts, separatorParameter(bt.separator))
       IN  bt' = [state |-> IF r.threw THEN "threw" ELSE "returned",
                  parts |-> bt.parts, separator |-> bt.separator,
                  result |-> r.value, after |-> argumentAfter(bt.parts)]
    /\ lastOp' = [op |-> "buildTitle"]
    /\ UNCHANGED << titlePartsMap, titleParts, titleSeparator, renderCounter,
                    comp, mountOrder, mounts, obs >>

NextBuild == CallBuildTitle

SpecBuild == InitBuild /\ [][NextBuild]_vars


(***************************************************************************)
(* Properties of buildTitle (under SpecBuild)                              *)
(***************************************************************************)
buildTitleDone == bt.state \in {"returned", "threw"}

\* The separator a call is given: its argument, or the default when omitted.
GivenSeparator == IF bt.separator = JSUndefined THEN " * " ELSE bt.separator.val

\* The entries of the call that are well-formed parts.
WellFormedIndexes ==
    { i \in 1..Len(bt.parts.items) : bt.parts.items[i] \in ValidEntries }

\* The titles of a set of parts with distinct levels, highest level first,
\* joined by sep.
RECURSIVE DescendingJoin(_, _)
DescendingJoin(S, sep) ==
    IF S = {} THEN ""
    ELSE LET top == CHOOSE p \in S : \A q \in S : q.level.val <= p.level.val
         IN  IF S = {top} THEN top.title.val
             ELSE top.title.val \o sep \o DescendingJoin(S \ {top}, sep)

AllWellFormedDistinctNonNegative ==
    /\ isArray(bt.parts)
    /\ WellFormedIndexes = 1..Len(bt.parts.items)
    /\ \A i \in 1..Len(bt.parts.items) : bt.parts.items[i].level.val >= 0
    /\ \A i, j \in 1..Len(bt.parts.items) :
          i # j => bt.parts.items[i].level.val # bt.parts.items[j].level.val

\* C4: for every sequence of valid parts with distinct non-negative levels (so
\* with no override part), in whatever order, buildTitle returns the titles in
\* strictly descending order of level, joined by the given separator, which is
\* the default separator when none is given.
C4_DescendingByLevel ==
    (buildTitleDone /\ AllWellFormedDistinctNonNegative) =>
        /\ bt.state = "returned"
        /\ bt.result =
              DescendingJoin({ bt.parts.items[i] : i \in 1..Len(bt.parts.items) },
                             GivenSeparator)

\* buildTitle has returned on levels given in the order 0, 2, 1 with no
\* separator argument.
C4_Witness ==
    /\ bt.state = "returned"
    /\ bt.parts = JSArray(<< TitlePart(0, "A"), TitlePart(2, "B"), TitlePart(1, "A") >>)
    /\ bt.separator = JSUndefined
    /\ bt.result = "B * A * A"

OverrideIndexes ==
    { i \in WellFormedIndexes : bt.parts.items[i].level.val = OVERRIDE_LEVEL }

\* C5: if a valid part of the sequence has level OVERRIDE_LEVEL, buildTitle
\* returns the title of such a part and nothing else, whatever other parts
\* are present and whatever the separator is.
C5_OverrideWins ==
    (buildTitleDone /\ isArray(bt.parts) /\ OverrideIndexes # {}) =>
        /\ bt.state = "returned"
        /\ \E i \in OverrideIndexes : bt.result = bt.parts.items[i].title.val

\* buildTitle has returned on two normal parts followed by an override part.
C5_Witness ==
    /\ bt.state = "returned"
    /\ bt.parts = JSArray(<< TitlePart(0, "A"), TitlePart(1, "A"),
                             TitlePart(OVERRIDE_LEVEL, "B") >>)
    /\ bt.separator = Str(" | ")
    /\ bt.result = "B"

\* C6: buildTitle returns the empty string for the empty sequence and for any
\* sequence with no valid part of non-negative level and no valid override
\* part, for any separator.
C6_EmptyWithoutUsableParts ==
    (/\ buildTitleDone
     /\ isArray(bt.parts)
     /\ \A i \in WellFormedIndexes : bt.parts.items[i].level.val < OVERRIDE_LEVEL) =>
        /\ bt.state = "returned"
        /\ bt.result = ""

\* buildTitle has returned the empty string on a malformed entry and a valid
\* part of level -2 with a non-empty title.
C6_Witness ==
    /\ bt.state = "returned"
    /\ bt.parts = JSArray(<< [level |-> Num(2)], TitlePart(-2, "A") >>)
    /\ bt.result = ""


(***************************************************************************)
(* Properties of the store functions (under SpecStore)                     *)
(***************************************************************************)
\* The cascade of the registry: the title built from the published parts and
\* the registry separator.
CascadeOf(w) == buildTitle(JSArray(w.titleParts), w.titleSeparator).value

Cascade == CascadeOf(World)

\* The levels of the part map other than the sentinel.
ActiveLevels == { l \in DOMAIN titlePartsMap : l # OVERRIDE_LEVEL }

\* One more than the highest active level, 0 when there is none.
AfterHighestActiveLevel ==
    IF ActiveLevels = {} THEN 0
    ELSE (CHOOSE m \in ActiveLevels : \A l \in ActiveLevels : l <= m) + 1

\* C1: resetLevelCounter() sets the counter to the highest level of the part
\* map other than the sentinel, plus one, and to 0 when the map holds no such
\* level; the getNextLevel() that follows it returns that value.
C1_ResetContinuesAfterHighest ==
    [][/\ lastOp'.op = "resetLevelCounter" =>
              renderCounter' = AfterHighestActiveLevel
       /\ (lastOp.op = "resetLevelCounter" /\ lastOp'.op = "getNextLevel") =>
              lastOp'.returned = AfterHighestActiveLevel]_vars

\* getNextLevel() has returned 2 right after a reset, with levels 0 and 1 and
\* the override part in the map.
C1_Witness ==
    /\ lastOp.op = "getNextLevel"
    /\ lastOp.returned = 2
    /\ renderCounter = 3
    /\ DOMAIN titlePartsMap = {OVERRIDE_LEVEL, 0, 1}

PartsAt(l) == { i \in 1..Len(titleParts) : titleParts[i].level.val = l }

\* C9: the registry holds at most one part per level, and after
\* setTitlePart(L, t2), whatever was written to L before, exactly one part is
\* at L and its title is t2 (the last write to a level wins).
C9_OnePartPerLevelLastWriteWins ==
    /\ \A l \in Levels : Cardinality(PartsAt(l)) <= 1
    /\ lastOp.op = "setTitlePart" =>
          /\ Cardinality(PartsAt(lastOp.level)) = 1
          /\ \A i \in PartsAt(lastOp.level) : titleParts[i].title.val = lastOp.title
          /\ lastOp.level \in DOMAIN titlePartsMap
          /\ titlePartsMap[lastOp.level] = lastOp.title

\* setTitlePart(1, "B") has run and the registry holds level 0 and level 1.
C9_Witness ==
    /\ lastOp = [op |-> "setTitlePart", level |-> 1, title |-> "B"]
    /\ titleParts = << TitlePart(0, "A"), TitlePart(1, "B") >>

\* C10 as claimed: setTitlePart(1, "") leads to the part map and the cascade
\* that removeTitlePart(1) leads to.
C10_EmptyTitleIsRemoval ==
    [][(lastOp'.op = "setTitlePart" /\ lastOp'.level = 1 /\ lastOp'.title = "") =>
          /\ titlePartsMap' = removeTitlePart(World, 1).titlePartsMap
          /\ Cascade' = CascadeOf(removeTitlePart(World, 1))]_vars

\* The titles of the levels in S, highest first, joined by sep.
RECURSIVE JoinLevels(_, _, _)
JoinLevels(map, S, sep) ==
    IF S = {} THEN ""
    ELSE LET top == CHOOSE m \in S : \A l \in S : l <= m
         IN  IF S = {top} THEN map[top]
             ELSE map[top] \o sep \o JoinLevels(map, S \ {top}, sep)

\* C10 as amended: removeTitlePart(1) takes level 1 out of the part map and
\* out of the cascade; setTitlePart(1, "") keeps level 1 in the part map with
\* the empty title, and without an override part the cascade joins that empty
\* title like any other.
C10_EmptyTitleIsStored ==
    [][/\ (lastOp'.op = "setTitlePart" /\ lastOp'.level = 1 /\ lastOp'.title = "") =>
              /\ 1 \in DOMAIN titlePartsMap'
              /\ titlePartsMap'[1] = ""
              /\ OVERRIDE_LEVEL \notin DOMAIN titlePartsMap =>
                    Cascade' = JoinLevels(titlePartsMap', ActiveLevels \cup {1},
                                          titleSeparator)
       /\ (lastOp'.op = "removeTitlePart" /\ lastOp'.level = 1) =>
              /\ 1 \notin DOMAIN titlePartsMap'
              /\ OVERRIDE_LEVEL \notin DOMAIN titlePartsMap =>
                    Cascade' = JoinLevels(titlePartsMap, ActiveLevels \ {1},
                                          titleSeparator)]_vars

\* setTitlePart(1, "") has run on a map with level 0: the cascade starts with
\* the separator.
C10_Witness ==
    /\ lastOp = [op |-> "setTitlePart", level |-> 1, title |-> ""]
    /\ titleParts = << TitlePart(0, "A"), TitlePart(1, "") >>
    /\ titleSeparator = DEFAULT_SEPARATOR
    /\ Cascade = " * A"


(***************************************************************************)
(* Properties of the components (under Spec)                               *)
(***************************************************************************)
\* The step mounts component b.
Mounted(b) == ~comp[b].mounted /\ comp'[b].mounted

\* C2: a component mounted with an automatic level right after
\* resetLevelCounter() gets a level that no component still mounted holds;
\* the components still mounted keep their levels and the parts of their
\* levels.
C2_FreshLevelAfterReset ==
    [][\A b \in Bindings :
          (lastOp.op = "resetLevelCounter" /\ Mounted(b)
             /\ comp'[b].level = JSUndefined) =>
          \A x \in Bindings \ {b} : comp[x].mounted =>
              /\ comp'[x].hierarchyLevel = comp[x].hierarchyLevel
              /\ comp'[b].hierarchyLevel # comp[x].hierarchyLevel
              /\ comp[x].hierarchyLevel \in DOMAIN titlePartsMap =>
                    /\ comp[x].hierarchyLevel \in DOMAIN titlePartsMap'
                    /\ titlePartsMap'[comp[x].hierarchyLevel] =
                          titlePartsMap[comp[x].hierarchyLevel]]_vars


\* C7 as claimed: while a component is toggled between override off and on
\* (back to its title each time it is turned off) and no other operation
\* intervenes, the cascade is the title of the component after each turn to
\* on and the cascade recorded before the first turn after each turn to off.
C7_ToggleRestoresCascade ==
    obs.state = "toggled" =>
        IF comp[obs.b].override
        THEN Cascade = comp[obs.b].title
        ELSE Cascade = obs.cascade

\* The component the observer follows had, before its first turn, the part of
\* its title at its level (no part for the empty title).
OwnPartRegistered ==
    LET level == comp[obs.b].hierarchyLevel
    IN  IF obs.title = "" THEN level \notin DOMAIN obs.map
        ELSE level \in DOMAIN obs.map /\ obs.map[level] = obs.title

\* C7 as amended: when the map held no override entry before the first turn
\* and held the component's own part at its level, the cascade is the title of
\* the component after each turn to on with a non-empty title, and the map and
\* the cascade are those recorded before the first turn after each turn to off.
C7_ToggleRestoresOwnPart ==
    (/\ obs.state = "toggled"
     /\ OVERRIDE_LEVEL \notin DOMAIN obs.map
     /\ OwnPartRegistered) =>
        IF comp[obs.b].override
        THEN comp[obs.b].title # "" => Cascade = comp[obs.b].title
        ELSE Cascade = obs.cascade /\ titlePartsMap = obs.map

\* The component at level 1 is back in normal mode after its fourth turn, over
\* a root part, and the cascade is the one recorded.
C7_Witness ==
    /\ obs.state = "toggled"
    /\ obs.count = 4
    /\ obs.cascade = "B * A"
    /\ OVERRIDE_LEVEL \notin DOMAIN obs.map
    /\ OwnPartRegistered
    /\ ~comp[obs.b].override
    /\ Cascade = "B * A"

\* C8: a step that puts an override entry into a map that had none, and leaves
\* the normal entries alone, makes the cascade the title of that entry; when
\* the next step takes the entry out again (removeTitlePart(OVERRIDE_LEVEL),
\* or the unmount of the override component), the cascade is the one found
\* before the entry was put in.
C8_OverrideAddedThenRemoved ==
    /\ obs.state = "added" =>
          /\ Cascade = obs.title
          /\ OVERRIDE_LEVEL \in DOMAIN titlePartsMap
          /\ titlePartsMap[OVERRIDE_LEVEL] = obs.title
    /\ obs.state = "removed" =>
          /\ Cascade = obs.cascade
          /\ OVERRIDE_LEVEL \notin DOMAIN titlePartsMap

\* The override component "B" mounted over the part "A" has been unmounted,
\* and the cascade is "A" again.
C8_Witness ==
    /\ obs.state = "removed"
    /\ obs.cascade = "A"
    /\ obs.title = "B"
    /\ obs.by # 0
    /\ lastOp.op = "unmount"
    /\ Cascade = "A"


\* The step mounts component b or changes its title or override prop.
Acted(b) ==
    /\ comp'[b].mounted
    /\ \/ ~comp[b].mounted
       \/ comp'[b].title # comp[b].title
       \/ comp'[b].override # comp[b].override

\* C11: after a step that leaves a normal-mode component with the empty title
\* (it mounts with it, or its title becomes empty) the map holds no part at
\* its level; after a step that leaves it with a non-empty title the part at
\* its level holds that title; and no part written by a component has the
\* empty title.
C11_EmptyTitleClearsPart ==
    [][/\ \A b \in Bindings :
             (Acted(b) /\ ~comp'[b].override) =>
                 IF comp'[b].title = ""
                 THEN comp'[b].hierarchyLevel \notin DOMAIN titlePartsMap'
                 ELSE /\ comp'[b].hierarchyLevel \in DOMAIN titlePartsMap'
                      /\ titlePartsMap'[comp'[b].hierarchyLevel] = comp'[b].title
       /\ \A l \in DOMAIN titlePartsMap' : titlePartsMap'[l] # ""]_vars

\* The component at level 1 has just been given the empty title over a root
\* part: level 1 is gone and the cascade is the root title.
C11_Witness ==
    /\ lastOp.op = "rerender"
    /\ \E b \in Bindings : /\ comp[b].mounted
                           /\ ~comp[b].override
                           /\ comp[b].title = ""
                           /\ comp[b].hierarchyLevel = 1
    /\ titlePartsMap = (0 :> "A")
    /\ Cascade = "A"


\* C12: after clearTitleState() the part map and the published parts are
\* empty, the separator is the default and the counter is 0, whatever the
\* call found.
C12_ClearLeavesInitialRegistry ==
    lastOp.op = "clearTitleState" =>
        /\ titlePartsMap = << >>
        /\ titleParts = << >>
        /\ titleSeparator = DEFAULT_SEPARATOR
        /\ renderCounter = 0

\* clearTitleState() has run on a registry with three parts, a custom
\* separator and an advanced counter.
C12_Witness ==
    /\ lastOp = [op |-> "clearTitleState", parts |-> 3, separator |-> " | ",
                 counter |-> 2]
    /\ titlePartsMap = << >>
    /\ titleSeparator = DEFAULT_SEPARATOR
    /\ renderCounter = 0


\* C13: in an execution that starts with clearTitleState(), the registry, the
\* cascade and every level handed out are those of a process in which that
\* call is the first thing that ever ran, whatever an earlier execution left
\* behind.
C13_ExecutionsIsolated ==
    obs.state = "running" =>
        /\ titlePartsMap = obs.twin.titlePartsMap
        /\ titleParts = obs.twin.titleParts
        /\ titleSeparator = obs.twin.titleSeparator
        /\ renderCounter = obs.twin.renderCounter
        /\ Cascade = CascadeOf(obs.twin)
        /\ lastOp.op = "getNextLevel" => Num(lastOp.returned) = obs.level

\* The execution found titles, a separator and a counter left by an earlier
\* one, has written its own title and separator, and is handed level 0.
C13_Witness ==
    /\ obs.state = "running"
    /\ obs.dirty
    /\ lastOp = [op |-> "getNextLevel", returned |-> 0]
    /\ titlePartsMap = (0 :> "A")
    /\ titleSeparator = " | "


\* C14: setSeparator("") throws and leaves the separator, the part map, the
\* published parts and the counter as they were; setSeparator(v) with v
\* non-empty does not throw, makes v the registry separator and the one the
\* cascade is joined with, and leaves the parts and the counter alone; the
\* separator changes in no other step than such a call or clearTitleState().
C14_SetSeparator ==
    [][/\ (lastOp'.op = "setSeparator" /\ lastOp'.separator = "") =>
              /\ lastOp'.threw
              /\ UNCHANGED << titleSeparator, titlePartsMap, titleParts,
                              renderCounter >>
       /\ (lastOp'.op = "setSeparator" /\ lastOp'.separator # "") =>
              /\ ~lastOp'.threw
              /\ titleSeparator' = lastOp'.separator
              /\ UNCHANGED << titlePartsMap, titleParts, renderCounter >>
              /\ OVERRIDE_LEVEL \notin DOMAIN titlePartsMap =>
                    Cascade' = JoinLevels(titlePartsMap, ActiveLevels,
                                          lastOp'.separator)
       /\ titleSeparator' # titleSeparator =>
              \/ lastOp'.op = "setSeparator" /\ lastOp'.separator # ""
              \/ lastOp'.op = "clearTitleState"]_vars

\* setSeparator("") has thrown on a registry that holds two parts under the
\* separator an earlier call stored.
C14_Witness ==
    /\ lastOp = [op |-> "setSeparator", separator |-> "", threw |-> TRUE]
    /\ titleSeparator = " | "
    /\ titlePartsMap = (0 :> "A" @@ 1 :> "B")
    /\ Cascade = "B | A"


\* C15: the registry separator is never the empty string, and neither is the
\* separator a mounted component builds its title with.
C15_SeparatorNeverEmpty ==
    /\ titleSeparator # ""
    /\ \A b \in Bindings : comp[b].mounted => comp[b].currentSeparator # ""

\* setSeparator("") has thrown while a root component mounted with a
\* separator prop is showing a cascade joined with it.
C15_Witness ==
    /\ lastOp = [op |-> "setSeparator", separator |-> "", threw |-> TRUE]
    /\ titleSeparator = " | "
    /\ \E b \in Bindings : /\ comp[b].mounted
                           /\ comp[b].separator = Str(" | ")
                           /\ comp[b].completeTitle = "B | A"


\* C16: a call of buildTitle whose parts argument is null, undefined or a
\* plain object throws 'buildTitle: parts must be an array' and returns no
\* string, whatever the separator.
C16_NonArrayThrows ==
    (buildTitleDone /\ bt.parts \in NonArrays) =>
        /\ bt.state = "threw"
        /\ bt.result = "buildTitle: parts must be an array"

\* buildTitle(null, " | ") has thrown.
C16_Witness ==
    /\ bt.state = "threw"
    /\ bt.parts = JSNull
    /\ bt.separator = Str(" | ")

\* The entries of an array that are well-formed parts, in their order.
WellFormedEntries(items) == SelectSeq(items, LAMBDA e : e \in ValidEntries)

\* C17: a call of buildTitle on an array returns, whatever malformed entries
\* the array holds, and returns what it returns for the array of the
\* well-formed entries alone.
C17_MalformedEntriesDropped ==
    (buildTitleDone /\ bt.parts \notin NonArrays) =>
        /\ bt.state = "returned"
        /\ bt.result = buildTitle(JSArray(WellFormedEntries(bt.parts.items)),
                                  GivenSeparator).value

\* A call on a root part, an entry with a non-numeric level and a level-1
\* part has returned the two titles.
C17_Witness ==
    /\ bt.state = "returned"
    /\ bt.parts = JSArray(<< TitlePart(0, "A"),
                           [level |-> Str("invalid"), title |-> Str("Bad")],
                           TitlePart(1, "B") >>)
    /\ bt.separator = JSUndefined
    /\ bt.result = "B * A"


\* C18: a mount whose level prop is negative and not the sentinel, or whose
\* separator prop is the empty string, throws and changes nothing: the
\* counter, the part map, the published parts, the separator and the
\* components are as before; and no component is ever mounted with such props.
C18_InvalidPropsChangeNothing ==
    [][/\ lastOp'.op = "mountThrows" =>
              UNCHANGED << renderCounter, titlePartsMap, titleParts,
                           titleSeparator, comp, mountOrder >>
       /\ \A b \in Bindings : comp'[b].mounted =>
              /\ comp'[b].separator # Str("")
              /\ comp'[b].level # JSUndefined =>
                    (comp'[b].level.val >= 0 \/ comp'[b].level.val = OVERRIDE_LEVEL)]_vars

\* A mount with no level prop and an empty separator prop has thrown while a
\* component holds level 0: the counter is still 1.
C18_Witness ==
    /\ lastOp = [op |-> "mountThrows", level |-> JSUndefined, separator |-> Str("")]
    /\ renderCounter = 1
    /\ titlePartsMap = (0 :> "A")
    /\ titleSeparator = DEFAULT_SEPARATOR


\* The step unmounts component b.
Unmounted(b) == comp[b].mounted /\ ~comp'[b].mounted

\* C19: after the unmount of a component the key of its mode (its level in
\* normal mode, the sentinel in override mode) is not in the part map, the
\* other entries are as before, and the cascade is the one built from them.
C19_UnmountRemovesKey ==
    [][\A b \in Bindings : Unmounted(b) =>
          LET key == IF comp[b].override THEN OVERRIDE_LEVEL
                     ELSE comp[b].hierarchyLevel
              rest == [l \in DOMAIN titlePartsMap \ {key} |-> titlePartsMap[l]]
          IN  /\ key \notin DOMAIN titlePartsMap'
              /\ titlePartsMap' = rest
              /\ Cascade' =
                    IF OVERRIDE_LEVEL \in DOMAIN rest THEN rest[OVERRIDE_LEVEL]
                    ELSE JoinLevels(rest, DOMAIN rest, titleSeparator)]_vars

\* The component at level 1 has been unmounted; the root part is left and
\* the root component shows its title alone.
C19_Witness ==
    /\ lastOp = [op |-> "unmount", key |-> 1]
    /\ titlePartsMap = (0 :> "A")
    /\ Cascade = "A"
    /\ \E b \in Bindings : /\ comp[b].mounted
                           /\ comp[b].hierarchyLevel = 0
                           /\ comp[b].completeTitle = "A"

(***************************************************************************)
(* C20                                                                     *)
(***************************************************************************)
\* The title a root component forwards to <title>, against the cascade of the
\* store's current parts and separator.
RootForwardsCascade(b) ==
    comp[b].completeTitle = buildTitle(JSArray(titleParts), titleSeparator).value

\* C20: while a root Binding (level 0) is mounted, after every completed
\* change of the part map or of the separator the title it forwards equals
\* buildTitle(current parts, current separator).
C20_RootForwardsCascade ==
    \A b \in Bindings :
        (comp[b].mounted /\ isRootLevel(comp[b])) => RootForwardsCascade(b)

(***************************************************************************)
(* C21                                                                     *)
(***************************************************************************)
\* <svelte:head><title>{completeTitle}</title></svelte:head>: the title
\* element of component b sets the document title in a step in which b is
\* rendered for the first time or its completeTitle changes.
titleElementWrites(b) ==
    /\ comp'[b].mounted
    /\ (~comp[b].mounted \/ comp'[b].completeTitle # comp[b].completeTitle)

\* C21: only a root Binding (level 0) writes to the rendering sink; a Binding
\* with another level, in normal or override mode, never sets the displayed
\* title itself.
C21_OnlyRootWritesTitle ==
    [][\A b \in Bindings :
          titleElementWrites(b) => isRootLevel(comp'[b])]_vars

(***************************************************************************)
(* C22                                                                     *)
(***************************************************************************)
\* Component b is mounted in this step with a level other than 0.
MountedNonRoot(b) ==
    ~comp[b].mounted /\ comp'[b].mounted /\ ~isRootLevel(comp'[b])

\* C22: a separator prop given to a Binding whose level is not 0 never
\* changes the registry separator; the roots keep building the cascade with
\* the separator they had.
C22_NonRootSeparatorIgnored ==
    [][\A b \in Bindings :
          MountedNonRoot(b) =>
              /\ titleSeparator' = titleSeparator
              /\ \A r \in Bindings :
                     (comp[r].mounted /\ isRootLevel(comp[r])) =>
                         comp'[r].currentSeparator = comp[r].currentSeparator]_vars

C22_Witness ==
    /\ lastOp.op = "mount"
    /\ titleSeparator = DEFAULT_SEPARATOR
    /\ Cascade = "B * A"
    /\ \E r, b \in Bindings :
          /\ comp[r].mounted /\ isRootLevel(comp[r])
          /\ comp[r].completeTitle = "B * A"
          /\ comp[b].mounted /\ comp[b].hierarchyLevel = 1
          /\ comp[b].separator = Str(" | ")

(***************************************************************************)
(* C23                                                                     *)
(***************************************************************************)
\* The mounted components that contribute a normal part, in mount order.
Contributors ==
    SelectSeq(mountOrder, LAMBDA b : ~comp[b].override /\ comp[b].title # "")

\* Their titles, last mounted first.
ReverseMountTitles ==
    [i \in 1..Len(Contributors) |->
        comp[Contributors[Len(Contributors) + 1 - i]].title]

\* C23: getNextLevel() returns the counter and then increments it by one, so
\* the Bindings mounted one after another with no level prop and no reset get
\* the levels 0, 1, 2, ... in mount order, and the cascade lists the titles
\* in reverse mount order.
C23_AutoLevelsInMountOrder ==
    /\ renderCounter = mounts
    /\ \A i \in 1..Len(mountOrder) : \A j \in 1..Len(mountOrder) :
          i < j => comp[mountOrder[i]].hierarchyLevel < comp[mountOrder[j]].hierarchyLevel
    /\ (Len(mountOrder) = mounts) =>
          \A i \in 1..Len(mountOrder) : comp[mountOrder[i]].hierarchyLevel = i - 1
    /\ (OVERRIDE_LEVEL \notin DOMAIN titlePartsMap) =>
          Cascade = join(ReverseMountTitles, titleSeparator)

C23_Witness ==
    /\ Len(mountOrder) = 3
    /\ \A i \in 1..3 : comp[mountOrder[i]].hierarchyLevel = i - 1
    /\ comp[mountOrder[1]].title = "A"
    /\ comp[mountOrder[2]].title = "B"
    /\ comp[mountOrder[3]].title = "A"
    /\ Cascade = "A * B * A"
    /\ comp[mountOrder[1]].completeTitle = "A * B * A"

(***************************************************************************)
(* C24                                                                     *)
(***************************************************************************)
\* The step is a reset: resetLevelCounter() or clearTitleState().
IsReset == lastOp'.op \in {"resetLevelCounter", "clearTitleState"}

\* C24: the counter is >= 0 in every reachable state, and between two
\* consecutive resets (resetLevelCounter or clearTitleState) it never
\* decreases.  The counter starts at 0, so the first half is stated on the
\* state every step leads to.
C24_CounterNonNegativeMonotone ==
    [][/\ renderCounter' >= 0
       /\ ~IsReset => renderCounter' >= renderCounter]_vars

\* The second half alone: outside the resets the counter never decreases.
C24_CounterMonotoneBetweenResets ==
    [][~IsReset => renderCounter' >= renderCounter]_vars

(***************************************************************************)
(* C25                                                                     *)
(***************************************************************************)
\* Component b is mounted in this step and takes its level from the counter.
MountedAuto(b) ==
    ~comp[b].mounted /\ comp'[b].mounted /\ comp'[b].level = JSUndefined

\* C25: an auto-assigned level never equals a level held by a mounted
\* Binding with an explicit level.
C25_AutoLevelAvoidsExplicit ==
    [][\A b \in Bindings :
          MountedAuto(b) =>
              \A a \in Bindings :
                  (comp[a].mounted /\ comp[a].level # JSUndefined) =>
                      comp'[b].hierarchyLevel # comp[a].hierarchyLevel]_vars

(***************************************************************************)
(* C26                                                                     *)
(***************************************************************************)
\* C26: when every Binding of a route has unmounted and resetLevelCounter()
\* is then called, auto-assignment restarts at level 0: the Bindings of the
\* next route get 0, 1, 2, ... in mount order and the cascade is made of
\* their titles only, last mounted first, so that the same Bindings mounted
\* in the same order give the same cascade after any number of navigations.
C26_NavigationRestartsLevels ==
    /\ (lastOp.op = "resetLevelCounter") =>
          (renderCounter = 0 /\ titlePartsMap = << >> /\ titleParts = << >>)
    /\ renderCounter = mounts
    /\ (Len(mountOrder) = mounts) =>
          \A i \in 1..Len(mountOrder) : comp[mountOrder[i]].hierarchyLevel = i - 1
    /\ (OVERRIDE_LEVEL \notin DOMAIN titlePartsMap) =>
          Cascade = join(ReverseMountTitles, titleSeparator)

C26_Witness ==
    /\ obs.navigations = MaxNavigations
    /\ Len(mountOrder) = 2
    /\ comp[mountOrder[1]].title = "A" /\ comp[mountOrder[1]].hierarchyLevel = 0
    /\ comp[mountOrder[2]].title = "B" /\ comp[mountOrder[2]].hierarchyLevel = 1
    /\ Cascade = "B * A"
    /\ comp[mountOrder[1]].completeTitle = "B * A"

(***************************************************************************)
(* C27                                                                     *)
(***************************************************************************)
\* C27: in server rendering, after a request rendered a root Binding with a
\* custom separator and a page Binding and resetLevelCounter() was called,
\* the separator store holds the default separator, the registry holds no
\* part, and a Binding rendered for the next request outputs no title of an
\* earlier request, only its own.
C27_NoLeakBetweenRequests ==
    /\ obs.earlierCustom => titleSeparator = DEFAULT_SEPARATOR
    /\ obs.earlier # {} => (titlePartsMap = << >> /\ titleParts = << >>)
    /\ (lastOp.op = "render" /\ obs.earlier # {}) =>
          lastOp.head \notin (obs.earlier \ {lastOp.title})

C27_Witness ==
    /\ obs.earlierCustom
    /\ obs.earlier = {"A", "B"}
    /\ lastOp.op = "render"
    /\ lastOp.title = ""
    /\ lastOp.head = ""
    /\ lastOp.hierarchyLevel = 1
    /\ obs.current = {"A", ""}
    /\ titleSeparator = DEFAULT_SEPARATOR

(***************************************************************************)
(* C28                                                                     *)
(***************************************************************************)
\* C28: at mount, before any effect has run (the state a server render
\* shows), the rendered title of a Binding is its own title prop, the empty
\* string when the prop is empty, whatever its level, its override flag and
\* its separator prop.
C28_RenderedTitleIsOwnTitle ==
    lastOp.op = "render" => lastOp.head = lastOp.title

C28_Witness ==
    /\ lastOp.op = "render"
    /\ lastOp.title = "B"
    /\ lastOp.head = "B"
    /\ lastOp.override
    /\ lastOp.hierarchyLevel = 1
    /\ lastOp.separator = Str(" | ")

(***************************************************************************)
(* C29                                                                     *)
(***************************************************************************)
\* The step changes the title prop of the mounted component b from one
\* non-empty value to another and leaves its override prop alone.
TitleReplaced(b) ==
    /\ comp[b].mounted /\ comp'[b].mounted
    /\ comp[b].title # "" /\ comp'[b].title # ""
    /\ comp'[b].title # comp[b].title
    /\ comp'[b].override = comp[b].override

\* The key component b registers under.
KeyOf(b) == IF comp[b].override THEN OVERRIDE_LEVEL ELSE comp[b].hierarchyLevel

\* C29: when the title prop of a mounted Binding changes to another
\* non-empty value the part under the Binding's key is replaced in place:
\* exactly one published part has that key, it carries the new title, the
\* parts at the other keys are untouched, and the cascade is built from the
\* new title and not from the old one.
C29_TitleReplacedInPlace ==
    [][\A b \in Bindings :
          TitleReplaced(b) =>
              /\ DOMAIN titlePartsMap' = DOMAIN titlePartsMap \cup {KeyOf(b)}
              /\ titlePartsMap'[KeyOf(b)] = comp'[b].title
              /\ \A l \in DOMAIN titlePartsMap \ {KeyOf(b)} :
                     titlePartsMap'[l] = titlePartsMap[l]
              /\ Cardinality({ i \in 1..Len(titleParts') :
                                  titleParts'[i].level.val = KeyOf(b) }) = 1
              /\ \A i \in 1..Len(titleParts') :
                     titleParts'[i].level.val = KeyOf(b) =>
                         titleParts'[i].title.val = comp'[b].title
              /\ buildTitle(JSArray(titleParts'), titleSeparator').value =
                     IF OVERRIDE_LEVEL \in DOMAIN titlePartsMap'
                     THEN titlePartsMap'[OVERRIDE_LEVEL]
                     ELSE JoinLevels(titlePartsMap', DOMAIN titlePartsMap',
                                     titleSeparator')]_vars

C29_Witness ==
    /\ obs.state = "changed"
    /\ obs.was = "A"
    /\ comp[obs.b].title = "B"
    /\ comp[obs.b].hierarchyLevel = 1
    /\ ~comp[obs.b].override
    /\ titlePartsMap = (0 :> "A" @@ 1 :> "B")
    /\ Len(titleParts) = 2
    /\ Cascade = "B * A"

(***************************************************************************)
(* C30                                                                     *)
(***************************************************************************)
\* The step mounts component b at level 0 with a separator prop while another
\* component with a separator prop is mounted at level 0.
MountedSecondRoot(b) ==
    /\ ~comp[b].mounted /\ comp'[b].mounted
    /\ isRootLevel(comp'[b]) /\ comp'[b].separator # JSUndefined
    /\ \E r \in Bindings \ {b} :
          comp[r].mounted /\ isRootLevel(comp[r]) /\ comp[r].separator # JSUndefined

OverrideChanged(b) ==
    /\ comp[b].mounted /\ comp'[b].mounted
    /\ comp'[b].override # comp[b].override

\* C31: a mounted Binding has a part under at most one key.  After its
\* override prop changes from false to true no part remains at its level L,
\* and after it changes from true to false no part remains under the
\* sentinel (a Binding whose level prop is the sentinel itself has one key
\* for both modes).
C31_OneKeyPerBinding ==
    [][\A b \in Bindings :
          (OverrideChanged(b) /\ comp[b].hierarchyLevel # OVERRIDE_LEVEL) =>
              /\ comp'[b].override =>
                     /\ comp[b].hierarchyLevel \notin DOMAIN titlePartsMap'
                     /\ (comp'[b].title # "" <=>
                             OVERRIDE_LEVEL \in DOMAIN titlePartsMap')
              /\ ~comp'[b].override =>
                     /\ OVERRIDE_LEVEL \notin DOMAIN titlePartsMap'
                     /\ (comp'[b].title # "" <=>
                             comp[b].hierarchyLevel \in DOMAIN titlePartsMap')]_vars

C31_Witness ==
    /\ obs.state = "toggled"
    /\ obs.count = 2
    /\ obs.title = "B"
    /\ obs.map = (0 :> "A" @@ 1 :> "B")
    /\ comp[obs.b].hierarchyLevel = 1
    /\ ~comp[obs.b].override
    /\ comp[obs.b].title = "B"
    /\ titlePartsMap = (0 :> "A" @@ 1 :> "B")

(***************************************************************************)
(* C32                                                                     *)
(***************************************************************************)
\* The published parts are the content of the part map: one entry per level
\* of the map, with the title of that level, in ascending order of level.
PublishedIsMap ==
    /\ Len(titleParts) = Cardinality(DOMAIN titlePartsMap)
    /\ \A i \in 1..Len(titleParts) :
          /\ titleParts[i].level.val \in DOMAIN titlePartsMap
          /\ titleParts[i].title.val = titlePartsMap[titleParts[i].level.val]
    /\ \A i \in 1..Len(titleParts) : \A j \in 1..Len(titleParts) :
          i < j => titleParts[i].level.val < titleParts[j].level.val

\* C32: after every setTitlePart and removeTitlePart, in any sequence of
\* them, the value published by the titleParts store is exactly the content
\* of the part map, one entry per level, sorted by ascending level.
C32_PublishedPartsAreTheMap ==
    lastOp.op \in {"setTitlePart", "removeTitlePart"} => PublishedIsMap

C32_Witness ==
    /\ lastOp = [op |-> "removeTitlePart", level |-> -1, had |-> TRUE]
    /\ titlePartsMap = (-2 :> "B" @@ 0 :> "A" @@ 1 :> "B")
    /\ Len(titleParts) = 3
    /\ titleParts[1] = TitlePart(-2, "B")
    /\ titleParts[2] = TitlePart(0, "A")
    /\ titleParts[3] = TitlePart(1, "B")

(***************************************************************************)
(* C33                                                                     *)
(***************************************************************************)
\* C33: removeTitlePart(L) removes only the part at level L: the titles at
\* every other level, the separator and the counter are unchanged, and when
\* no part exists at L the part map is unchanged.
C33_RemoveOnlyThatLevel ==
    [][lastOp'.op = "removeTitlePart" =>
          /\ DOMAIN titlePartsMap' = DOMAIN titlePartsMap \ {lastOp'.level}
          /\ \A l \in DOMAIN titlePartsMap' : titlePartsMap'[l] = titlePartsMap[l]
          /\ titleSeparator' = titleSeparator
          /\ renderCounter' = renderCounter
          /\ ~lastOp'.had => titlePartsMap' = titlePartsMap]_vars

C33_Witness ==
    /\ lastOp = [op |-> "removeTitlePart", level |-> 1, had |-> TRUE]
    /\ titlePartsMap = (-1 :> "B" @@ 0 :> "A")
    /\ titleParts = << TitlePart(-1, "B"), TitlePart(0, "A") >>
    /\ renderCounter = 2

C35_LevelFixedAtMount ==
    [][\A b \in Bindings :
          /\ (comp[b].mounted /\ comp'[b].mounted) =>
                 /\ comp'[b].hierarchyLevel = comp[b].hierarchyLevel
                 /\ comp'[b].level = comp[b].level
                 /\ (Acted(b) /\ ~comp'[b].override /\ comp'[b].title # "") =>
                        (comp[b].hierarchyLevel \in DOMAIN titlePartsMap'
                           /\ titlePartsMap'[comp[b].hierarchyLevel] = comp'[b].title)
          /\ (Unmounted(b) /\ ~comp[b].override) =>
                 /\ lastOp'.key = comp[b].hierarchyLevel
                 /\ comp[b].hierarchyLevel \notin DOMAIN titlePartsMap']_vars

C35_Witness ==
    /\ lastOp.op = "rerender"
    /\ mounts = 2
    /\ renderCounter = 1
    /\ Len(mountOrder) = 1
    /\ comp[mountOrder[1]].level = JSUndefined
    /\ comp[mountOrder[1]].hierarchyLevel = 0
    /\ comp[mountOrder[1]].title = "B"
    /\ titlePartsMap = (0 :> "B")

(***************************************************************************)
(* C36                                                                     *)
(***************************************************************************)
\* The titles of the mounted components in override mode with a non-empty
\* title.
OverrideTitles ==
    { comp[b].title : b \in { x \in Bindings : /\ comp[x].mounted
                                                /\ comp[x].override
                                                /\ comp[x].title # "" } }

\* C36: while at least one Binding in override mode with a non-empty title
\* is mounted, the cascade is the title of a mounted override Binding.
C36_OverrideShownWhileMounted ==
    OverrideTitles # {} => Cascade \in OverrideTitles

(***************************************************************************)
(* C37                                                                     *)
(***************************************************************************)
\* The components mounted before the step.
MountedBefore == { x \in Bindings : comp[x].mounted }

\* C37: when resetLevelCounter() has run while the outgoing page Binding is
\* still mounted, the Binding that mounts next with an auto-assigned level
\* gets a level strictly greater than the level of every Binding that
\* persists: of every mounted Binding but one, the outgoing one, whichever
\* it is.
C37_ResetBeforeUnmount ==
    [][\A b \in Bindings :
          (lastOp.op = "resetLevelCounter" /\ MountedAuto(b)
             /\ Cardinality(MountedBefore) >= 2) =>
              \E o \in MountedBefore :
                  \A x \in MountedBefore \ {o} :
                      comp'[b].hierarchyLevel > comp[x].hierarchyLevel]_vars

(***************************************************************************)
(* C38                                                                     *)
(***************************************************************************)
\* The key a component registers under: its level in normal mode, the
\* sentinel in override mode.
OwnKey(b) == IF comp[b].override THEN OVERRIDE_LEVEL ELSE comp[b].hierarchyLevel

\* The step mounts component b at level 0 with no separator prop.
MountedPlainRoot(b) ==
    Mounted(b) /\ isRootLevel(comp'[b]) /\ comp'[b].separator = JSUndefined

\* The step mounts a component at level 0 with a separator prop.
MountedRootWithSeparator ==
    \E b \in Bindings :
        Mounted(b) /\ isRootLevel(comp'[b]) /\ comp'[b].separator # JSUndefined

\* C38: unmounting the root Binding removes the part under its own key
\* (level 0 in normal mode) and nothing else: the other parts, the counter
\* and the registry separator keep their values.  A root mounted afterwards
\* without a separator prop leaves the separator as it found it and builds
\* with it, and the separator changes only by setSeparator, clearTitleState
\* or the mount of a root with a separator prop.
C38_RootUnmountKeepsSeparator ==
    [][/\ \A b \in Bindings :
             (Unmounted(b) /\ isRootLevel(comp[b])) =>
                 /\ (~comp[b].override => OwnKey(b) = 0)
                 /\ DOMAIN titlePartsMap' = DOMAIN titlePartsMap \ {OwnKey(b)}
                 /\ \A l \in DOMAIN titlePartsMap' :
                        titlePartsMap'[l] = titlePartsMap[l]
                 /\ titleSeparator' = titleSeparator
                 /\ renderCounter' = renderCounter
       /\ \A b \in Bindings :
             MountedPlainRoot(b) =>
                 /\ titleSeparator' = titleSeparator
                 /\ comp'[b].currentSeparator = titleSeparator
                 /\ (~comp'[b].override =>
                        comp'[b].completeTitle =
                            buildTitle(JSArray(titleParts'), titleSeparator).value)
       /\ titleSeparator' # titleSeparator =>
             \/ lastOp'.op \in {"setSeparator", "clearTitleState"}
             \/ MountedRootWithSeparator]_vars

\* A root gave the separator ' - ' and went away while the page 'B' stayed;
\* the root 'A' mounted last, without a separator prop, shows 'B - A'.
C38_Witness ==
    /\ lastOp.op = "mount"
    /\ mounts = 3
    /\ Len(mountOrder) = 2
    /\ comp[mountOrder[1]].hierarchyLevel = 1
    /\ comp[mountOrder[1]].separator = JSUndefined
    /\ comp[mountOrder[1]].title = "B"
    /\ comp[mountOrder[2]].hierarchyLevel = 0
    /\ comp[mountOrder[2]].separator = JSUndefined
    /\ comp[mountOrder[2]].title = "A"
    /\ titleSeparator = " - "
    /\ comp[mountOrder[2]].currentSeparator = " - "
    /\ comp[mountOrder[2]].completeTitle = "B - A"

====
